---- MODULE Spec2Model ----
(***************************************************************************)
(* State-machine model of the factory backend's hardware layer:            *)
(*   - api/cameras.py      CameraManager (reference-counted capture device) *)
(*   - machines/gantry.py  Gantry (goto / _goto_task / send)                *)
(*   - machines/raspberry_pi.py  RaspberryPi (unlock, connect, cleanup)     *)
(* Each component has its own specification (CamSpec, GantrySpec, PiSpec);  *)
(* the variables of the other components stay at their initial values.      *)
(***************************************************************************)
EXTENDS Integers, Sequences, FiniteSets, TLC

(***************************************************************************)
(* Bounds of the model.                                                     *)
(***************************************************************************)
\* number of start()/stop() calls made on one CameraManager
MaxCalls == 6
\* number of goto() calls made on the gantry
MaxGotos == 3
\* number of request-handling threads that call goto()
NumHandlers == 2
\* number of stream and snapshot requests in flight on one camera
NumRequests == 2
\* number of step() calls made on the gantry beside its motion tasks
MaxSteps == 1
\* number of add_job() calls made on one JobsManager
MaxAdds == 2
\* number of machine methods run through JobsManager.run_job
MaxRuns == 1

None == 0

(***************************************************************************)
(* CameraManager (src/api/cameras.py), one manager = one camera key.        *)
(*                                                                          *)
(* VideoCapture objects are numbered 1, 2, ... in creation order; capture   *)
(* threads likewise.  start() runs wholly inside self.lock and waits for    *)
(* nothing, so it is one step.  stop() holds self.lock across               *)
(* thread.join(timeout=2.0), during which the capture thread runs: it is    *)
(* two steps (stop_enter, then stop_teardown once join has returned).       *)
(* Callers blocked on self.lock have no state of their own, so concurrent   *)
(* callers appear as the order in which calls get the lock.                 *)
(***************************************************************************)
VARIABLES
  ref_count,     \* self.ref_count
  cap,           \* self.cap: None or the id of a VideoCapture object
  isOpened,      \* the VideoCapture objects for which isOpened() is true
  thread,        \* self.thread: None or the id of a capture thread
  loop,          \* position of every capture thread in _capture_loop
  rdCap,         \* the VideoCapture object a thread is reading from
  stop_event,    \* self.stop_event.is_set()
  latest_frame,  \* self.latest_frame: None or the object the frame came from
  lock,          \* self.lock is held (by a stop() in its teardown)
  caps,          \* number of VideoCapture objects constructed so far
  calls,         \* number of start()/stop() calls begun so far
  cam_ret,       \* outcome of the last completed start()/stop()
  nAcq,          \* history: start() calls that returned normally
  nRel,          \* history: stop() calls that returned
  nOpen,         \* history: successful device opens
  nClose,        \* history: cap.release() calls made by stop()
  phased         \* history: no start() was called after a stop()

camVars == <<ref_count, cap, isOpened, thread, loop, rdCap, stop_event,
             latest_frame, lock, caps, calls, cam_ret, nAcq, nRel, nOpen,
             nClose, phased>>

Ids == 1..MaxCalls

CamInit ==
  /\ ref_count = 0
  /\ cap = None
  /\ isOpened = {}
  /\ thread = None
  /\ loop = [t \in Ids |-> "unborn"]
  /\ rdCap = [t \in Ids |-> None]
  /\ stop_event = FALSE
  /\ latest_frame = None
  /\ lock = FALSE
  /\ caps = 0
  /\ calls = 0
  /\ cam_ret = "none"
  /\ nAcq = 0
  /\ nRel = 0
  /\ nOpen = 0
  /\ nClose = 0
  /\ phased = TRUE

\* a capture thread that has been started and has not left _capture_loop
Running(t) == loop[t] \in {"check", "read"}

RunningLoops == {t \in Ids : Running(t)}

\* line 46: the device is opened only when no thread is recorded
start_opens_no_thread_check(th) == TRUE
start_needs_open(th) == th = None

\* line 59: the count taken at line 45 is given back when the open failed
start_failed_ref_kept(rc) == rc
start_failed_ref(rc) == rc - 1

\* CameraManager.start, lines 43-64; ok: whether cap.isOpened() after the open
start(ok) ==
  /\ ~lock
  /\ calls < MaxCalls
  /\ calls' = calls + 1
  /\ phased' = (phased /\ nRel = 0)
  /\ IF ~start_needs_open(thread)
       THEN /\ ref_count' = ref_count + 1
            /\ cam_ret' = "ok"
            /\ nAcq' = nAcq + 1
            /\ UNCHANGED <<cap, isOpened, thread, loop, stop_event, caps, nOpen>>
       ELSE /\ caps' = caps + 1
            /\ cap' = caps + 1
            /\ IF ok
                 THEN /\ isOpened' = isOpened \cup {caps + 1}
                      /\ ref_count' = ref_count + 1
                      /\ stop_event' = FALSE
                      /\ nOpen' = nOpen + 1
                      /\ thread' = nOpen + 1
                      /\ loop' = [loop EXCEPT ![nOpen + 1] = "check"]
                      /\ cam_ret' = "ok"
                      /\ nAcq' = nAcq + 1
                 ELSE /\ ref_count' = start_failed_ref(ref_count + 1)
                      /\ cam_ret' = "DeviceUnavailable"
                      /\ UNCHANGED <<isOpened, stop_event, nOpen, thread, loop, nAcq>>
  /\ UNCHANGED <<rdCap, latest_frame, lock, nRel, nClose>>

\* line 69: the session is torn down when the count has reached zero
stop_tears_down(rc) == rc <= 0

\* CameraManager.stop, lines 66-71 (and the whole call when the count stays positive)
stop_enter ==
  /\ ~lock
  /\ calls < MaxCalls
  /\ calls' = calls + 1
  /\ ref_count' = ref_count - 1
  /\ IF stop_tears_down(ref_count - 1)
       THEN /\ lock' = TRUE
            /\ stop_event' = TRUE
            /\ UNCHANGED <<cam_ret, nRel>>
       ELSE /\ cam_ret' = "released"
            /\ nRel' = nRel + 1
            /\ UNCHANGED <<lock, stop_event>>
  /\ UNCHANGED <<cap, isOpened, thread, loop, rdCap, latest_frame, caps, nAcq,
                 nOpen, nClose, phased>>

\* lines 74-75: cap.release() on the recorded object
stop_release_skipped(c, opened) == opened
stop_release(c, opened) == IF c # None THEN opened \ {c} ELSE opened

\* line 78
stop_ref_unclamped(rc) == rc
stop_final_ref(rc) == 0

\* line 73: thread.join(timeout=2.0) returns when the thread has exited, or
\* after 2 s while the thread is still blocked inside cap.read(); a thread
\* at its loop test sees stop_event within the timeout and exits
join_returns(th) == loop[th] = "exited" \/ loop[th] = "read"

\* CameraManager.stop, lines 72-80, from the return of join to the end
stop_teardown ==
  /\ lock
  /\ thread # None => join_returns(thread)
  /\ cam_ret' = IF thread = None THEN "torn_down_nothread"
                ELSE IF loop[thread] = "exited" THEN "torn_down_joined"
                ELSE "torn_down_timeout"
  /\ isOpened' = stop_release(cap, isOpened)
  /\ nClose' = IF cap # None THEN nClose + 1 ELSE nClose
  /\ cap' = None
  /\ thread' = None
  /\ ref_count' = stop_final_ref(ref_count)
  /\ lock' = FALSE
  /\ nRel' = nRel + 1
  /\ UNCHANGED <<loop, rdCap, stop_event, latest_frame, caps, calls, nAcq, nOpen,
                 phased>>

\* _capture_loop, lines 29-33: the loop test, then entering cap.read()
capture_loop_check(t) ==
  /\ loop[t] = "check"
  /\ IF stop_event \/ cap = None \/ cap \notin isOpened
       THEN /\ loop' = [loop EXCEPT ![t] = "exited"]
            /\ UNCHANGED rdCap
       ELSE /\ loop' = [loop EXCEPT ![t] = "read"]
            /\ rdCap' = [rdCap EXCEPT ![t] = cap]
  /\ UNCHANGED <<ref_count, cap, isOpened, thread, stop_event, latest_frame, lock,
                 caps, calls, cam_ret, nAcq, nRel, nOpen, nClose, phased>>

\* _capture_loop, lines 33-40: cap.read() returns; a frame is stored on
\* success, a failed read sleeps 0.1 s; then back to the loop test.
\* A read succeeds only on an object that is still open.
capture_loop_read(t, success) ==
  /\ loop[t] = "read"
  /\ success => rdCap[t] \in isOpened
  /\ latest_frame' = IF success THEN rdCap[t] ELSE latest_frame
  /\ loop' = [loop EXCEPT ![t] = "check"]
  /\ rdCap' = [rdCap EXCEPT ![t] = None]
  /\ UNCHANGED <<ref_count, cap, isOpened, thread, stop_event, lock, caps, calls,
                 cam_ret, nAcq, nRel, nOpen, nClose, phased>>

\* the environment: an opened device stops reporting open (unplugged, driver
\* error), which is what line 30 tests for
device_lost ==
  /\ cap # None
  /\ cap \in isOpened
  /\ isOpened' = isOpened \ {cap}
  /\ UNCHANGED <<ref_count, cap, thread, loop, rdCap, stop_event, latest_frame,
                 lock, caps, calls, cam_ret, nAcq, nRel, nOpen, nClose, phased>>

(***************************************************************************)
(* detect_cameras (src/api/cameras.py, lines 117-127): the probe of the     *)
(* device indices 0..3.  Which devices open when probed is the              *)
(* environment's choice; the probe makes its own cv2.VideoCapture objects   *)
(* and touches no CameraManager.  The endpoint is a plain function and      *)
(* shares nothing with other calls, so a call is one step.                  *)
(***************************************************************************)
VARIABLES
  available,      \* the available_indexes of the last probe to return
  probe_handles,  \* the devices a probe has opened and not released
  probed          \* history: a probe has returned

probeVars == <<available, probe_handles, probed>>

ProbeInit ==
  /\ available = <<>>
  /\ probe_handles = {}
  /\ probed = FALSE

\* line 120: range(4)
ProbeRange == 4

\* the sets of devices that open when probed
ProbeOutcomes == {{}, {1}, {0, 2}, {0, 1, 2, 3}}

\* line 126: cap.release()
release_forgotten(handles, i) == handles
cap_release(handles, i) == handles \ {i}

\* lines 120-126: the scan from index i on, r being what the indices below
\* i have left
RECURSIVE probe_scan(_, _, _)
probe_scan(i, opens, r) ==
  IF i >= ProbeRange THEN r
  ELSE probe_scan(i + 1, opens,
         IF i \in opens
           THEN [available |-> Append(r.available, i),
                 handles |-> cap_release(r.handles \cup {i}, i)]
           ELSE r)

\* detect_cameras, lines 117-127
detect_cameras(opens) ==
  /\ available' = probe_scan(0, opens, [available |-> <<>>, handles |-> probe_handles]).available
  /\ probe_handles' = probe_scan(0, opens, [available |-> <<>>, handles |-> probe_handles]).handles
  /\ probed' = TRUE
  /\ UNCHANGED camVars

(***************************************************************************)
(* The stream and snapshot requests of one camera (src/api/cameras.py,      *)
(* lines 93-112 and 136-150).                                               *)
(*                                                                          *)
(* Both are coroutines of the server's event loop: a request runs alone     *)
(* from one await to the next, and while one of them is inside stop()'s     *)
(* teardown no other request moves.  A request can end at an await only     *)
(* (the client goes away, the task is cancelled).  The capture threads run  *)
(* beside the event loop as before.                                         *)
(***************************************************************************)
VARIABLES
  rpc,           \* position of every request
  snap_ret       \* how the last snapshot to reach line 144 ends

requestVars == <<rpc, snap_ret>>

Requests == 1..NumRequests

RequestInit ==
  /\ rpc = [r \in Requests |-> "idle"]
  /\ snap_ret = "none"

\* manager.stop(), called by request r: the request is back when the count
\* stays positive, and is inside the teardown otherwise
request_stop(r) ==
  /\ stop_enter
  /\ rpc' = [rpc EXCEPT ![r] = IF lock' THEN "stopping" ELSE "idle"]

\* the teardown of the stop() a request called ends, lines 72-80
request_stop_return ==
  /\ stop_teardown
  /\ rpc' = [r \in Requests |-> IF rpc[r] = "stopping" THEN "idle" ELSE rpc[r]]
  /\ UNCHANGED snap_ret

\* mjpeg_generator, lines 94-95: start() is called before the try; when it
\* raises the generator ends without a stop()
stream_begin(r, ok) ==
  /\ rpc[r] = "idle"
  /\ start(ok)
  /\ rpc' = [rpc EXCEPT ![r] = IF cam_ret' = "ok" THEN "streaming" ELSE "idle"]
  /\ UNCHANGED snap_ret

\* mjpeg_generator, lines 96-112: the loop is left, by the break of line
\* 108, by an exception, or by the closing or cancellation of the generator
\* at its yield or its sleep; every one of these runs the finally clause
stream_end(r) ==
  /\ rpc[r] = "streaming"
  /\ request_stop(r)
  /\ UNCHANGED snap_ret

\* snapshot, lines 138-143, up to the first await: start(), which may raise;
\* then the wait is entered only while there is no latest frame
snapshot_begin(r, ok) ==
  /\ rpc[r] = "idle"
  /\ start(ok)
  /\ rpc' = [rpc EXCEPT ![r] =
               IF cam_ret' # "ok" THEN "idle"
               ELSE IF latest_frame # None THEN "snap_ready" ELSE "snap_wait"]
  /\ UNCHANGED snap_ret

\* snapshot, lines 141-143: a sleep of the wait is over; the wait goes on,
\* or ends because there is a frame or (timeout) the tenth sleep is done
snapshot_poll(r, timeout) ==
  /\ rpc[r] = "snap_wait"
  /\ ~lock
  /\ rpc' = [rpc EXCEPT ![r] =
               IF latest_frame # None \/ timeout THEN "snap_ready" ELSE "snap_wait"]
  /\ UNCHANGED <<camVars, snap_ret>>

\* snapshot, lines 144-150: the frame is read and stop() is called; the
\* response is the frame, or the error of line 149 when there is none
snapshot_release(r) ==
  /\ rpc[r] = "snap_ready"
  /\ snap_ret' = IF latest_frame # None THEN "frame" ELSE "Hardware Timeout"
  /\ request_stop(r)

\* line 143 sits in no try block
cancel_in_wait(r) == rpc' = [rpc EXCEPT ![r] = "idle"] /\ UNCHANGED camVars

\* snapshot, line 143: the request is cancelled in its await
snapshot_cancel(r) ==
  /\ rpc[r] = "snap_wait"
  /\ ~lock
  /\ cancel_in_wait(r)
  /\ UNCHANGED snap_ret

(***************************************************************************)
(* Gantry (src/machines/gantry.py).                                         *)
(*                                                                          *)
(* goto() is called from request-handling threads; it takes no lock, so     *)
(* its test of in_motion (line 93) and its assignment (line 97) are two     *)
(* steps of the calling thread.  Every accepted goto starts a thread that   *)
(* runs _goto_task; tasks are numbered in the order they are started.       *)
(* send() is two steps of its caller: getting _io_lock, then the post made  *)
(* while holding it, with the release of the lock on the way out.           *)
(* A pose is "origin" (the x,y,z,a of line 13) or "target" (those passed to *)
(* goto, whose values no branch of the code depends on).                    *)
(***************************************************************************)
VARIABLES
  in_motion,   \* self.in_motion
  toolend,     \* self.toolend['position'], the cached pose
  io_lock,     \* self._io_lock: None or the task that holds it
  hpc,         \* position of every handler thread inside goto()
  goto_ret,    \* what the last goto() to return returned
  tpc,         \* position of every task thread in _goto_task
  tcmd,        \* which command of the move a task is at (1 G90, 2 G1, 3 M400)
  tfail,       \* history: some command of the task failed
  ctrl_mode,   \* the controller's addressing mode
  ctrl_pos,    \* the controller's position
  sent,        \* history: number of commands posted to the controller
  gotos,       \* number of goto() calls begun so far
  tasks        \* number of task threads started so far

gantryVars == <<in_motion, toolend, io_lock, hpc, goto_ret, tpc, tcmd, tfail,
                ctrl_mode, ctrl_pos, sent, gotos, tasks>>

Handlers == 1..NumHandlers
Tasks == 1..MaxGotos

GantryInit ==
  /\ in_motion = FALSE
  /\ toolend = "origin"
  /\ io_lock = None
  /\ hpc = [h \in Handlers |-> "idle"]
  /\ goto_ret = "none"
  /\ tpc = [t \in Tasks |-> "unborn"]
  /\ tcmd = [t \in Tasks |-> 0]
  /\ tfail = [t \in Tasks |-> FALSE]
  /\ ctrl_mode = "abs"
  /\ ctrl_pos = "origin"
  /\ sent = 0
  /\ gotos = 0
  /\ tasks = 0

\* a motion task that has been started and has not finished _goto_task
InFlight == {t \in Tasks : tpc[t] \in {"send", "post", "finally"}}

\* line 93
goto_never_busy(moving) == FALSE
goto_busy(moving) == moving

\* Gantry.goto, lines 93-95: the test of in_motion, and the busy return
goto_check(h) ==
  /\ hpc[h] = "idle"
  /\ gotos < MaxGotos
  /\ gotos' = gotos + 1
  /\ IF goto_busy(in_motion)
       THEN /\ goto_ret' = "False"
            /\ UNCHANGED hpc
       ELSE /\ hpc' = [hpc EXCEPT ![h] = "checked"]
            /\ UNCHANGED goto_ret
  /\ UNCHANGED <<in_motion, toolend, io_lock, tpc, tcmd, tfail,
                 ctrl_mode, ctrl_pos, sent, tasks>>

\* Gantry.goto, lines 97-100: in_motion = True, start the task thread, return True
goto_launch(h) ==
  /\ hpc[h] = "checked"
  /\ in_motion' = TRUE
  /\ tasks' = tasks + 1
  /\ tpc' = [tpc EXCEPT ![tasks + 1] = "send"]
  /\ tcmd' = [tcmd EXCEPT ![tasks + 1] = 1]
  /\ goto_ret' = "True"
  /\ hpc' = [hpc EXCEPT ![h] = "idle"]
  /\ UNCHANGED <<toolend, io_lock, tfail, ctrl_mode, ctrl_pos, sent, gotos>>

\* Gantry.send, line 26, called from _goto_task: wait for _io_lock
send_acquire(t) ==
  /\ tpc[t] = "send"
  /\ io_lock = None
  /\ io_lock' = t
  /\ tpc' = [tpc EXCEPT ![t] = "post"]
  /\ UNCHANGED <<in_motion, toolend, hpc, goto_ret, tcmd, tfail,
                 ctrl_mode, ctrl_pos, sent, gotos, tasks>>

\* _goto_task, lines 85-88: what follows the return of a send, whatever it
\* returned (send catches every Exception and returns None, lines 33-35)
task_after_send(c, ok) == IF c < 3 THEN "send" ELSE "finally"

\* Gantry.send, lines 27-35, called from _goto_task: the post succeeds (ok)
\* or raises (timeout, connection or HTTP error) and None is returned; the
\* lock is released on the way out.  A command that succeeded has acted on
\* the controller: G90 selects absolute addressing, G1 moves to the target
\* (or, taken as an offset in relative addressing, somewhere else).
send_post(t, ok) ==
  /\ tpc[t] = "post"
  /\ io_lock' = None
  /\ sent' = sent + 1
  /\ tfail' = [tfail EXCEPT ![t] = tfail[t] \/ ~ok]
  /\ ctrl_mode' = IF ok /\ tcmd[t] = 1 THEN "abs" ELSE ctrl_mode
  /\ ctrl_pos' = IF ok /\ tcmd[t] = 2
                   THEN IF ctrl_mode = "abs" THEN "target" ELSE "astray"
                   ELSE ctrl_pos
  /\ tpc' = [tpc EXCEPT ![t] = task_after_send(tcmd[t], ok)]
  /\ tcmd' = [tcmd EXCEPT ![t] = IF tcmd[t] < 3 THEN tcmd[t] + 1 ELSE tcmd[t]]
  /\ UNCHANGED <<in_motion, toolend, hpc, goto_ret, gotos, tasks>>

\* line 89, reached on every exit path of the try block
task_exit_without_finally(moving, failed) == IF failed THEN moving ELSE FALSE
task_exit_in_motion(moving, failed) == FALSE

\* _goto_task, lines 88-89: the finally clause
goto_task_finally(t) ==
  /\ tpc[t] = "finally"
  /\ in_motion' = task_exit_in_motion(in_motion, tfail[t])
  /\ tpc' = [tpc EXCEPT ![t] = "done"]
  /\ tcmd' = [tcmd EXCEPT ![t] = 0]
  /\ UNCHANGED <<toolend, io_lock, hpc, goto_ret, tfail, ctrl_mode,
                 ctrl_pos, sent, gotos, tasks>>

\* Gantry.get_pose, lines 37-70: the cached pose follows the controller's
\* position when the query succeeds, and is left alone when it fails
get_pose(ok) ==
  /\ toolend' = IF ok THEN ctrl_pos ELSE toolend
  /\ UNCHANGED <<in_motion, io_lock, hpc, goto_ret, tpc, tcmd, tfail,
                 ctrl_mode, ctrl_pos, sent, gotos, tasks>>

TaskStep(t) ==
  \/ send_acquire(t)
  \/ \E ok \in BOOLEAN : send_post(t, ok)
  \/ goto_task_finally(t)

(***************************************************************************)
(* Gantry.step called from a thread of its own while motion tasks run       *)
(* (src/machines/gantry.py, lines 102-107).  Each of its three commands is  *)
(* a send of its own: _io_lock is taken and released around every post, so  *)
(* the sends of a step and those of a motion task can alternate.            *)
(***************************************************************************)
VARIABLES
  step_cmd,    \* which command a step() is at (1 G91, 2 G1, 3 G90), 0: none
  steps        \* number of step() calls begun so far

stepVars == <<step_cmd, steps>>

StepInit ==
  /\ step_cmd = 0
  /\ steps = 0

\* the name under which the thread of step() holds _io_lock
StepThread == MaxGotos + 1

\* Gantry.step, line 102: a call begins
step_call ==
  /\ step_cmd = 0
  /\ steps < MaxSteps
  /\ steps' = steps + 1
  /\ step_cmd' = 1
  /\ UNCHANGED gantryVars

\* Gantry.send, line 26, called from step: wait for _io_lock
step_acquire ==
  /\ step_cmd > 0
  /\ io_lock = None
  /\ io_lock' = StepThread
  /\ UNCHANGED <<in_motion, toolend, hpc, goto_ret, tpc, tcmd, tfail,
                 ctrl_mode, ctrl_pos, sent, gotos, tasks, stepVars>>

\* Gantry.send, lines 27-35, called from step: the post succeeds (ok) or
\* raises; G91 selects relative addressing, G1 moves, G90 selects absolute
step_post(ok) ==
  /\ io_lock = StepThread
  /\ io_lock' = None
  /\ sent' = sent + 1
  /\ ctrl_mode' = IF ok /\ step_cmd = 1 THEN "rel"
                  ELSE IF ok /\ step_cmd = 3 THEN "abs" ELSE ctrl_mode
  /\ ctrl_pos' = IF ok /\ step_cmd = 2 THEN "stepped" ELSE ctrl_pos
  /\ step_cmd' = IF step_cmd < 3 THEN step_cmd + 1 ELSE 0
  /\ UNCHANGED <<in_motion, toolend, hpc, goto_ret, tpc, tcmd, tfail, gotos,
                 tasks, steps>>

(***************************************************************************)
(* RaspberryPi (src/machines/raspberry_pi.py): the solenoid lock.           *)
(*                                                                          *)
(* unlock() is called from request-handling threads (the endpoints are      *)
(* plain functions, run on a thread pool), so calls can overlap.  The       *)
(* outputs are those of RPi.GPIO: GPIO.output on a pin that is not set up   *)
(* as an output raises and changes nothing; GPIO.cleanup returns the pins   *)
(* to inputs, which de-energizes the lock.                                  *)
(***************************************************************************)
VARIABLES
  connected,   \* self.connected
  gpio_setup,  \* the pins are set up as outputs (GPIO.setup .. GPIO.cleanup)
  lock_out,    \* level of the lock output: "HIGH" energized, "LOW" not
  upc,         \* position of every caller inside unlock()
  uarg,        \* the time_s a caller passed to unlock()
  uret,        \* how a caller's last unlock() ended
  dir_out,     \* level of the direction output (self.dir_pin)
  duty,        \* duty cycle of self.pwm
  spc,         \* position of every caller inside screw()
  screw_ret    \* how the last screw() to end ended

piVars == <<connected, gpio_setup, lock_out, upc, uarg, uret, dir_out, duty, spc,
            screw_ret>>

PiInit ==
  /\ connected = FALSE
  /\ gpio_setup = FALSE
  /\ lock_out = "LOW"
  /\ upc = [c \in Handlers |-> "idle"]
  /\ uarg = [c \in Handlers |-> 0]
  /\ uret = [c \in Handlers |-> "none"]
  /\ dir_out = "LOW"
  /\ duty = 0
  /\ spc = [c \in Handlers |-> "idle"]
  /\ screw_ret = "none"

\* the time_s arguments tried: a negative one makes time.sleep raise
TimeArgs == {-1, 0, 1}

\* RaspberryPi.connect, lines 45-58 (a call on a connected object leaves
\* connected, the pin directions and the lock level as they are)
connect ==
  /\ ~connected
  /\ gpio_setup' = TRUE
  /\ connected' = TRUE
  /\ duty' = 0
  /\ UNCHANGED <<lock_out, upc, uarg, uret, dir_out, spc, screw_ret>>

\* RaspberryPi.cleanup, lines 115-120
cleanup ==
  /\ connected
  /\ gpio_setup' = FALSE
  /\ lock_out' = "LOW"
  /\ connected' = FALSE
  /\ dir_out' = "LOW"
  /\ duty' = 0
  /\ UNCHANGED <<upc, uarg, uret, spc, screw_ret>>

\* GPIO.output(self.lock_pin, level)
gpio_output(level) == IF gpio_setup THEN level ELSE lock_out

\* RaspberryPi.unlock, lines 104-108: energize; when GPIO.output raises, the
\* finally clause runs at once and its GPIO.output raises as well
unlock_begin(c, t) ==
  /\ upc[c] = "idle"
  /\ spc[c] = "idle"
  /\ IF gpio_setup
       THEN /\ lock_out' = gpio_output("HIGH")
            /\ upc' = [upc EXCEPT ![c] = "hold"]
            /\ uarg' = [uarg EXCEPT ![c] = t]
            /\ uret' = [uret EXCEPT ![c] = "none"]
       ELSE /\ lock_out' = gpio_output("LOW")
            /\ uret' = [uret EXCEPT ![c] = "raised_gpio"]
            /\ UNCHANGED <<upc, uarg>>
  /\ UNCHANGED <<connected, gpio_setup, dir_out, duty, spc, screw_ret>>

\* line 109: time.sleep raises on a negative length (and err stands for any
\* other exception delivered during the hold)
sleep_raises(t, err) == t < 0 \/ err

\* lines 110-112: the finally clause
unlock_exit_skips_finally(raised) == IF raised THEN lock_out ELSE gpio_output("LOW")
unlock_exit_level(raised) == gpio_output("LOW")

\* RaspberryPi.unlock, lines 109-113: the hold ends, normally or by an
\* exception, and the finally clause de-energizes
unlock_end(c, err) ==
  /\ upc[c] = "hold"
  /\ lock_out' = unlock_exit_level(sleep_raises(uarg[c], err))
  /\ uret' = [uret EXCEPT ![c] =
                IF sleep_raises(uarg[c], err) THEN "raised_hold"
                ELSE IF ~gpio_setup THEN "raised_gpio"
                ELSE "returned"]
  /\ upc' = [upc EXCEPT ![c] = "idle"]
  /\ uarg' = [uarg EXCEPT ![c] = 0]
  /\ UNCHANGED <<connected, gpio_setup, dir_out, duty, spc, screw_ret>>

(***************************************************************************)
(* RaspberryPi.screw: the screwdriver motor, one direction output and one   *)
(* pulse-width output.  A call with duration > 0 sleeps between setting the *)
(* duty and clearing it, so it is two steps of its caller.                  *)
(***************************************************************************)
\* the arguments tried
Directions == {"CW", "CCW", "STOP", "cw", "FWD"}
Durations == {0, 2}
Speeds == {-10, 50, 150}

\* line 73: direction.upper()
upper(d) == IF d = "cw" THEN "CW" ELSE d

\* line 89: max(0, min(100, speed))
clamp_duty(sp) == IF sp > 100 THEN 100 ELSE IF sp < 0 THEN 0 ELSE sp

\* line 84: GPIO.HIGH if direction == "CW" else GPIO.LOW
dir_level(d) == IF d = "CW" THEN "HIGH" ELSE "LOW"

\* RaspberryPi.screw, lines 69-93: everything up to the sleep, and the whole
\* call when it raises, stops or has no duration
screw_begin(c, d, dur, sp) ==
  /\ spc[c] = "idle"
  /\ upc[c] = "idle"
  /\ IF ~connected
       THEN /\ screw_ret' = "NotConnected"
            /\ UNCHANGED <<dir_out, duty, spc>>
       ELSE IF upper(d) = "STOP"
       THEN /\ duty' = 0
            /\ screw_ret' = "STOP"
            /\ UNCHANGED <<dir_out, spc>>
       ELSE IF upper(d) \notin {"CW", "CCW"}
       THEN /\ screw_ret' = "ValueError"
            /\ UNCHANGED <<dir_out, duty, spc>>
       ELSE /\ dir_out' = dir_level(upper(d))
            /\ duty' = clamp_duty(sp)
            /\ IF dur > 0
                 THEN /\ spc' = [spc EXCEPT ![c] = "run"]
                      /\ UNCHANGED screw_ret
                 ELSE /\ screw_ret' = "done"
                      /\ UNCHANGED spc
  /\ UNCHANGED <<connected, gpio_setup, lock_out, upc, uarg, uret>>

\* RaspberryPi.screw, lines 93-96: the sleep is over
screw_end(c) ==
  /\ spc[c] = "run"
  /\ duty' = 0
  /\ screw_ret' = "done"
  /\ spc' = [spc EXCEPT ![c] = "idle"]
  /\ UNCHANGED <<connected, gpio_setup, lock_out, upc, uarg, uret, dir_out>>

(***************************************************************************)
(* JobsManager (src/sections/jobs_manager.py).                              *)
(*                                                                          *)
(* A job id is a Python value: a string of digits (what add_job issues) or  *)
(* an integer (what a caller of update_job may put in job["id"]).  A job    *)
(* is its id, machine and action; its params are those its action takes     *)
(* (add_job writes the x, y, z, a, speed of Gantry.step; a screw job has    *)
(* direction "CW", duration 0, speed 50).  The store is a mapping from ids  *)
(* to jobs.  A jobs file holds nothing ("missing"), text that is not JSON   *)
(* ("invalid") or a JSON object, a set of <<name, job>> members whose names *)
(* are strings.  The integer ids tried have digits no string id has, so no  *)
(* two ids of a store are written under one name.                           *)
(* The methods are run one call at a time.                                  *)
(***************************************************************************)
VARIABLES
  jobs,         \* self.jobs
  job_counter,  \* self._job_counter
  jobs_file,    \* self.jobs_file
  disk,         \* what every jobs file path holds
  jop,          \* history: the last JobsManager method called
  jret,         \* history: how that call ended
  jsaved,       \* history: what save_jobs returned inside that call
  issued,       \* history: the ids add_job has returned
  deleted,      \* history: the ids whose job delete_job has removed
  runs          \* history: number of methods run_job has invoked

jobVars == <<jobs, job_counter, jobs_file, disk, jop, jret, jsaved, issued,
             deleted, runs>>

\* str(n) of line 84, and an integer id
StrId(n) == [t |-> "str", d |-> n]
IntId(n) == [t |-> "int", d |-> n]

Machines == {"gantry", "rpi"}

\* lines 86-91
NewJob(id) == [id |-> id, machine |-> "gantry", action |-> "step"]

\* the jobs passed to update_job
UpdateJobs ==
  { [id |-> StrId(0), machine |-> "rpi", action |-> "screw"],
    [id |-> IntId(7), machine |-> "gantry", action |-> "toolend"] }

\* the paths passed to load: none, a bare file name, a file in a directory
\* that can be written, a file in a directory that cannot.  "None" is the
\* Python None, which Factory.load_factory passes when its file names no jobs
JobPaths == {"jobs.json", "data/jobs.json", "/ro/jobs.json"}
LoadArgs == JobPaths \cup {""}

\* truth value of a path (lines 48 and 65)
truthy(p) == p \notin {"", "None"}

\* os.path.dirname, line 71
dirname(p) ==
  IF p = "data/jobs.json" THEN "data" ELSE IF p = "/ro/jobs.json" THEN "/ro" ELSE ""

\* os.makedirs(d, exist_ok=True), line 71: raises FileNotFoundError on ''
\* and PermissionError where the directory cannot be made
makedirs_ok(d) == d = "data"

\* the empty store, {}
NoJobs == [k \in {} |-> NewJob(StrId(0))]

\* json.dump of a store, line 74: every id is written as a string
json_key(k) == k.d
json_dump(js) == {<<json_key(k), js[k]>> : k \in DOMAIN js}

\* json.load of a JSON object, line 51: every name is read as a string
json_load(doc) ==
  [k \in {StrId(e[1]) : e \in doc} |-> (CHOOSE e \in doc : StrId(e[1]) = k)[2]]

Missing == [kind |-> "missing", doc |-> {}]
Invalid == [kind |-> "invalid", doc |-> {}]
Json(doc) == [kind |-> "json", doc |-> doc]

\* a jobs file written by an earlier process: job "0", since updated
SeedDoc == json_dump([k \in {StrId(0)} |->
                        [id |-> StrId(0), machine |-> "rpi", action |-> "screw"]])

\* lines 34-38, and the files found on the disk
JobInit ==
  /\ jobs = NoJobs
  /\ job_counter = 0
  /\ jobs_file = ""
  /\ disk \in [JobPaths -> {Missing, Invalid, Json(SeedDoc)}]
  /\ disk["/ro/jobs.json"] = Json(SeedDoc)
  /\ disk["jobs.json"] = Missing
  /\ jop = "none"
  /\ jret = [kind |-> "none", id |-> StrId(0), val |-> ""]
  /\ jsaved = "none"
  /\ issued = {}
  /\ deleted = {}
  /\ runs = 0

Returned(kind, id, val) == [kind |-> kind, id |-> id, val |-> val]

\* JobsManager.load, lines 48-61: the store a load of path p leaves
load_jobs(p, d) ==
  IF truthy(p) /\ d[p].kind # "missing"
    THEN IF d[p].kind = "json" THEN json_load(d[p].doc) ELSE NoJobs
    ELSE NoJobs

\* JobsManager.save_jobs, lines 65-81: what it returns
save_jobs_ok(p) == truthy(p) /\ makedirs_ok(dirname(p))

\* JobsManager.save_jobs, lines 73-74: the disk it leaves
save_jobs_disk(p, js, d) ==
  IF save_jobs_ok(p) THEN [d EXCEPT ![p] = Json(json_dump(js))] ELSE d

\* JobsManager.load, lines 46-62
load(p) ==
  /\ jobs_file' = p
  /\ jobs' = load_jobs(p, disk)
  /\ jop' = "load"
  /\ jret' = Returned("self", StrId(0), "")
  /\ jsaved' = "none"
  /\ UNCHANGED <<job_counter, disk, issued, deleted, runs>>

\* JobsManager.save_jobs, lines 64-81
save_jobs ==
  /\ disk' = save_jobs_disk(jobs_file, jobs, disk)
  /\ jop' = "save_jobs"
  /\ jret' = Returned("bool", StrId(0), IF save_jobs_ok(jobs_file) THEN "True" ELSE "False")
  /\ jsaved' = IF save_jobs_ok(jobs_file) THEN "True" ELSE "False"
  /\ UNCHANGED <<jobs, job_counter, jobs_file, issued, deleted, runs>>

\* line 85
counter_kept(c) == c
next_counter(c) == c + 1

\* JobsManager.add_job, lines 83-94
add_job ==
  /\ job_counter < MaxAdds
  /\ job_counter' = next_counter(job_counter)
  /\ jobs' = [k \in DOMAIN jobs \cup {StrId(job_counter)} |->
                IF k = StrId(job_counter) THEN NewJob(k) ELSE jobs[k]]
  /\ disk' = save_jobs_disk(jobs_file, jobs', disk)
  /\ jop' = "add"
  /\ jret' = Returned("id", StrId(job_counter), "")
  /\ jsaved' = IF save_jobs_ok(jobs_file) THEN "True" ELSE "False"
  /\ issued' = issued \cup {StrId(job_counter)}
  /\ UNCHANGED <<jobs_file, deleted, runs>>

\* JobsManager.update_job, lines 96-99
update_job(job) ==
  /\ jobs' = [k \in DOMAIN jobs \cup {job.id} |-> IF k = job.id THEN job ELSE jobs[k]]
  /\ disk' = save_jobs_disk(jobs_file, jobs', disk)
  /\ jop' = "update"
  /\ jret' = Returned("id", job.id, "")
  /\ jsaved' = IF save_jobs_ok(jobs_file) THEN "True" ELSE "False"
  /\ UNCHANGED <<job_counter, jobs_file, issued, deleted, runs>>

\* JobsManager.delete_job, lines 101-106
delete_job(job_id) ==
  /\ IF job_id \in DOMAIN jobs
       THEN /\ jobs' = [k \in DOMAIN jobs \ {job_id} |-> jobs[k]]
            /\ disk' = save_jobs_disk(jobs_file, jobs', disk)
            /\ jret' = Returned("bool", StrId(0), "True")
            /\ jsaved' = IF save_jobs_ok(jobs_file) THEN "True" ELSE "False"
            /\ deleted' = deleted \cup {job_id}
       ELSE /\ jret' = Returned("bool", StrId(0), "False")
            /\ jsaved' = "none"
            /\ UNCHANGED <<jobs, disk, deleted>>
  /\ jop' = "delete"
  /\ UNCHANGED <<job_counter, jobs_file, issued, runs>>

\* the ids passed to delete_job: the first add_job issues, and one that no
\* job has
DeleteArgs == {StrId(0), StrId(MaxAdds)}

\* getattr(machine, action, None), line 114: a method of the machine's
\* class, an attribute that is not callable, or nothing
getattr_kind(machine, action) ==
  IF machine = "gantry" /\ action = "step" THEN "method"
  ELSE IF machine = "rpi" /\ action = "screw" THEN "method"
  ELSE IF machine = "gantry" /\ action = "toolend" THEN "attribute"
  ELSE "absent"

\* JobsManager.run_job, lines 114-117: nothing is found under the name
run_job_missing(job, machine) ==
  /\ getattr_kind(machine, job.action) = "absent"
  /\ jret' = Returned("result", StrId(0), "None")
  /\ jsaved' = "none"
  /\ UNCHANGED <<jobs, disk, runs, gantryVars, piVars>>

\* JobsManager.run_job, lines 114-120: what is found is not callable, and
\* the call of line 120 raises TypeError
run_job_not_callable(job, machine) ==
  /\ getattr_kind(machine, job.action) = "attribute"
  /\ jret' = Returned("raise", StrId(0), "TypeError")
  /\ jsaved' = "none"
  /\ UNCHANGED <<jobs, disk, runs, gantryVars, piVars>>

\* JobsManager.run_job, lines 114-126, on RaspberryPi.screw: the exception
\* of a screw that raises leaves run_job at line 120
run_job_screw(job, machine) ==
  /\ getattr_kind(machine, job.action) = "method"
  /\ machine = "rpi"
  /\ screw_begin(1, "CW", 0, 50)
  /\ IF screw_ret' = "NotConnected"
       THEN /\ jret' = Returned("raise", StrId(0), "RuntimeError")
            /\ jsaved' = "none"
            /\ UNCHANGED disk
       ELSE /\ jret' = Returned("result", StrId(0), "list")
            /\ jsaved' = IF save_jobs_ok(jobs_file) THEN "True" ELSE "False"
            /\ disk' = save_jobs_disk(jobs_file, jobs, disk)
  /\ UNCHANGED <<jobs, runs, gantryVars>>

\* Gantry.step, lines 102-107 of src/machines/gantry.py: three commands,
\* each of which reaches the controller (ok) or fails inside send
step(ok1, ok2, ok3) ==
  /\ io_lock = None
  /\ sent' = sent + 3
  /\ ctrl_mode' = IF ok3 THEN "abs" ELSE IF ok1 THEN "rel" ELSE ctrl_mode
  /\ ctrl_pos' = IF ok2 THEN "stepped" ELSE ctrl_pos
  /\ UNCHANGED <<in_motion, toolend, io_lock, hpc, goto_ret, tpc, tcmd, tfail,
                 gotos, tasks>>

\* JobsManager.run_job, lines 114-126, on Gantry.step
run_job_step(job, machine, ok1, ok2, ok3) ==
  /\ getattr_kind(machine, job.action) = "method"
  /\ machine = "gantry"
  /\ runs < MaxRuns
  /\ runs' = runs + 1
  /\ step(ok1, ok2, ok3)
  /\ jret' = Returned("result", StrId(0), IF ok2 THEN "True" ELSE "False")
  /\ jsaved' = IF save_jobs_ok(jobs_file) THEN "True" ELSE "False"
  /\ disk' = save_jobs_disk(jobs_file, jobs, disk)
  /\ UNCHANGED <<jobs, piVars>>

\* JobsManager.run_job, lines 108-126
run_job(job, machine) ==
  /\ jop' = "run"
  /\ UNCHANGED <<job_counter, jobs_file, issued, deleted>>
  /\ \/ run_job_missing(job, machine)
     \/ run_job_not_callable(job, machine)
     \/ run_job_screw(job, machine)
     \/ \E ok1, ok2, ok3 \in BOOLEAN : run_job_step(job, machine, ok1, ok2, ok3)

\* the jobs of the store
StoredJobs == {jobs[k] : k \in DOMAIN jobs}

(***************************************************************************)
(* Factory (src/sections/factory.py).                                       *)
(*                                                                          *)
(* The factory file holds nothing ("missing"), no bytes ("empty"), text     *)
(* that is not JSON ("invalid") or a JSON object, of which the model keeps  *)
(* what load_factory and save_factory read and write: the members "jobs"    *)
(* and "jobs_file" ("None" when the object has no such member), whether the *)
(* "machines" member has a gantry section, the tool end of that section,    *)
(* and the "tools" member.  The parts catalog is left out.                  *)
(* A Gantry made by Gantry() has no attributes holders and locations        *)
(* (src/machines/gantry.py, lines 10-15); load_factory gives them to it     *)
(* when the file has a gantry section.  Its base_url is "", so the G92 that *)
(* load_factory sends through set_position fails inside send before it      *)
(* reaches the controller.                                                  *)
(***************************************************************************)
VARIABLES
  save_file,    \* self.save_file
  ffile,        \* what the factory file holds
  tools,        \* self.tools
  holders,      \* the Gantry of self.machines has holders and locations
  fop,          \* history: the last Factory method called
  fret          \* history: how that call ended

factoryVars == <<save_file, ffile, tools, holders, fop, fret>>

FactoryFile == "factory.json"

FDoc(kind, jobsMember, jobsFileMember, gantrySection, toolEnd, toolsMember) ==
  [kind |-> kind, jobs |-> jobsMember, jobs_file |-> jobsFileMember,
   gantry |-> gantrySection, toolend |-> toolEnd, tools |-> toolsMember]

FMissing == FDoc("missing", "None", "None", FALSE, "origin", "{}")
FEmpty == FDoc("empty", "None", "None", FALSE, "origin", "{}")
FInvalid == FDoc("invalid", "None", "None", FALSE, "origin", "{}")

\* a factory file in the layout load_factory reads
FHand == FDoc("json", "data/jobs.json", "None", TRUE, "target", "drill")

\* lines 21-26, and the factory file found on the disk
FactoryInit ==
  /\ save_file = ""
  /\ ffile \in {FMissing, FEmpty, FInvalid, FHand}
  /\ tools = "{}"
  /\ holders = FALSE
  /\ fop = "none"
  /\ fret = "none"

\* Factory.load_factory, lines 39-49: data is assigned
data_bound(f) == f.kind = "json"

\* Factory.load_factory, lines 36-67
load_factory ==
  /\ fop' = "load_factory"
  /\ save_file' = FactoryFile
  /\ IF ~data_bound(ffile)
       THEN /\ fret' = "UnboundLocalError"
            /\ UNCHANGED <<tools, holders, jobVars, gantryVars, piVars>>
       ELSE /\ tools' = ffile.tools
            /\ holders' = ffile.gantry
            /\ in_motion' = FALSE
            /\ io_lock' = None
            /\ toolend' = IF ffile.gantry THEN ffile.toolend ELSE "origin"
            /\ UNCHANGED <<hpc, goto_ret, tpc, tcmd, tfail, ctrl_mode, ctrl_pos,
                           sent, gotos, tasks>>
            /\ connected' = FALSE
            /\ UNCHANGED <<gpio_setup, lock_out, upc, uarg, uret, dir_out, duty,
                           spc, screw_ret>>
            /\ load(ffile.jobs)
            /\ fret' = "self"
  /\ UNCHANGED ffile

\* Factory.save_factory, lines 69-92: how it ends
save_factory_ret(sf, h) ==
  IF sf = "" THEN "RuntimeError" ELSE IF ~h THEN "AttributeError" ELSE "None"

\* Factory.save_factory, lines 73-90: the file it leaves
save_factory_file(sf, h, jf, te, tl, f) ==
  IF save_factory_ret(sf, h) = "None" THEN FDoc("json", "None", jf, TRUE, te, tl) ELSE f

\* Factory.add_job, lines 111-115
factory_add_job ==
  /\ fop' = "add"
  /\ add_job
  /\ ffile' = save_factory_file(save_file, holders, jobs_file, toolend, tools, ffile)
  /\ fret' = IF save_factory_ret(save_file, holders) = "None"
               THEN "id" ELSE save_factory_ret(save_file, holders)
  /\ UNCHANGED <<save_file, tools, holders, gantryVars, piVars>>

\* Factory.update_job, lines 117-121
factory_update_job(job) ==
  /\ fop' = "update"
  /\ update_job(job)
  /\ ffile' = save_factory_file(save_file, holders, jobs_file, toolend, tools, ffile)
  /\ fret' = save_factory_ret(save_file, holders)
  /\ UNCHANGED <<save_file, tools, holders, gantryVars, piVars>>

\* Factory.delete_job, lines 123-126
factory_delete_job(job_id) ==
  /\ fop' = "delete"
  /\ delete_job(job_id)
  /\ ffile' = save_factory_file(save_file, holders, jobs_file, toolend, tools, ffile)
  /\ fret' = save_factory_ret(save_file, holders)
  /\ UNCHANGED <<save_file, tools, holders, gantryVars, piVars>>

\* Factory.run_job, lines 128-134; a job_id the store does not have raises
\* KeyError at line 129, and an exception of run_job leaves at line 133
factory_run_job(job_id) ==
  /\ fop' = "run"
  /\ IF job_id \notin DOMAIN jobs
       THEN /\ fret' = "KeyError"
            /\ UNCHANGED <<ffile, jobVars, gantryVars, piVars>>
       ELSE /\ run_job(jobs[job_id], jobs[job_id].machine)
            /\ IF jret'.kind = "raise"
                 THEN /\ fret' = jret'.val
                      /\ UNCHANGED ffile
                 ELSE /\ fret' = save_factory_ret(save_file, holders)
                      /\ ffile' = save_factory_file(save_file, holders, jobs_file,
                                                    toolend', tools, ffile)
  /\ UNCHANGED <<save_file, tools, holders>>

\* the ids passed to Factory.run_job: those of the store, and one it lacks
RunArgs == DOMAIN jobs \cup {StrId(MaxAdds)}

(***************************************************************************)
(* The specifications.                                                      *)
(***************************************************************************)
vars == <<camVars, probeVars, requestVars, stepVars, gantryVars, piVars, jobVars, factoryVars>>

Init == CamInit /\ ProbeInit /\ RequestInit /\ GantryInit /\ StepInit /\ PiInit /\ JobInit /\ FactoryInit

CamNext ==
  \/ (\E ok \in BOOLEAN : start(ok))
       /\ UNCHANGED <<probeVars, requestVars, stepVars, gantryVars, piVars, jobVars,
                    factoryVars>>
  \/ stop_enter /\ UNCHANGED <<probeVars, requestVars, stepVars, gantryVars, piVars, jobVars,
                    factoryVars>>
  \/ stop_teardown /\ UNCHANGED <<probeVars, requestVars, stepVars, gantryVars, piVars, jobVars,
                    factoryVars>>
  \/ (\E t \in Ids : capture_loop_check(t))
       /\ UNCHANGED <<probeVars, requestVars, stepVars, gantryVars, piVars, jobVars,
                    factoryVars>>
  \/ (\E t \in Ids, success \in BOOLEAN : capture_loop_read(t, success))
       /\ UNCHANGED <<probeVars, requestVars, stepVars, gantryVars, piVars, jobVars,
                    factoryVars>>
  \/ device_lost /\ UNCHANGED <<probeVars, requestVars, stepVars, gantryVars, piVars, jobVars,
                    factoryVars>>
  \/ (\E opens \in ProbeOutcomes : detect_cameras(opens))
       /\ UNCHANGED <<requestVars, stepVars, gantryVars, piVars, jobVars, factoryVars>>

RequestNext ==
  \/ (\E r \in Requests, ok \in BOOLEAN : stream_begin(r, ok))
       /\ UNCHANGED <<probeVars, stepVars, gantryVars, piVars, jobVars, factoryVars>>
  \/ (\E r \in Requests : stream_end(r))
       /\ UNCHANGED <<probeVars, stepVars, gantryVars, piVars, jobVars, factoryVars>>
  \/ (\E r \in Requests, ok \in BOOLEAN : snapshot_begin(r, ok))
       /\ UNCHANGED <<probeVars, stepVars, gantryVars, piVars, jobVars, factoryVars>>
  \/ (\E r \in Requests, timeout \in BOOLEAN : snapshot_poll(r, timeout))
       /\ UNCHANGED <<probeVars, stepVars, gantryVars, piVars, jobVars, factoryVars>>
  \/ (\E r \in Requests : snapshot_release(r))
       /\ UNCHANGED <<probeVars, stepVars, gantryVars, piVars, jobVars, factoryVars>>
  \/ (\E r \in Requests : snapshot_cancel(r))
       /\ UNCHANGED <<probeVars, stepVars, gantryVars, piVars, jobVars, factoryVars>>
  \/ request_stop_return
       /\ UNCHANGED <<probeVars, stepVars, gantryVars, piVars, jobVars, factoryVars>>
  \/ (\E t \in Ids : capture_loop_check(t))
       /\ UNCHANGED <<probeVars, requestVars, stepVars, gantryVars, piVars, jobVars,
                    factoryVars>>
  \/ (\E t \in Ids, success \in BOOLEAN : capture_loop_read(t, success))
       /\ UNCHANGED <<probeVars, requestVars, stepVars, gantryVars, piVars, jobVars,
                    factoryVars>>
  \/ device_lost
       /\ UNCHANGED <<probeVars, requestVars, stepVars, gantryVars, piVars, jobVars,
                    factoryVars>>

GantryNext ==
  \/ (\E h \in Handlers : goto_check(h))
       /\ UNCHANGED <<camVars, probeVars, requestVars, stepVars, piVars, jobVars,
                    factoryVars>>
  \/ (\E h \in Handlers : goto_launch(h))
       /\ UNCHANGED <<camVars, probeVars, requestVars, stepVars, piVars, jobVars,
                    factoryVars>>
  \/ (\E t \in Tasks : send_acquire(t))
       /\ UNCHANGED <<camVars, probeVars, requestVars, stepVars, piVars, jobVars,
                    factoryVars>>
  \/ (\E t \in Tasks, ok \in BOOLEAN : send_post(t, ok))
       /\ UNCHANGED <<camVars, probeVars, requestVars, stepVars, piVars, jobVars,
                    factoryVars>>
  \/ (\E t \in Tasks : goto_task_finally(t))
       /\ UNCHANGED <<camVars, probeVars, requestVars, stepVars, piVars, jobVars,
                    factoryVars>>
  \/ (\E ok \in BOOLEAN : get_pose(ok))
       /\ UNCHANGED <<camVars, probeVars, requestVars, stepVars, piVars, jobVars,
                    factoryVars>>

MotionNext ==
  \/ (\E h \in Handlers : goto_check(h))
       /\ UNCHANGED <<camVars, probeVars, requestVars, stepVars, piVars, jobVars,
                    factoryVars>>
  \/ (\E h \in Handlers : goto_launch(h))
       /\ UNCHANGED <<camVars, probeVars, requestVars, stepVars, piVars, jobVars,
                    factoryVars>>
  \/ (\E t \in Tasks : send_acquire(t))
       /\ UNCHANGED <<camVars, probeVars, requestVars, stepVars, piVars, jobVars,
                    factoryVars>>
  \/ (\E t \in Tasks, ok \in BOOLEAN : send_post(t, ok))
       /\ UNCHANGED <<camVars, probeVars, requestVars, stepVars, piVars, jobVars,
                    factoryVars>>
  \/ (\E t \in Tasks : goto_task_finally(t))
       /\ UNCHANGED <<camVars, probeVars, requestVars, stepVars, piVars, jobVars,
                    factoryVars>>
  \/ step_call
       /\ UNCHANGED <<camVars, probeVars, requestVars, piVars, jobVars, factoryVars>>
  \/ step_acquire
       /\ UNCHANGED <<camVars, probeVars, requestVars, piVars, jobVars, factoryVars>>
  \/ (\E ok \in BOOLEAN : step_post(ok))
       /\ UNCHANGED <<camVars, probeVars, requestVars, piVars, jobVars, factoryVars>>

PiNext ==
  \/ connect /\ UNCHANGED <<camVars, probeVars, requestVars, stepVars, gantryVars, jobVars,
                    factoryVars>>
  \/ cleanup /\ UNCHANGED <<camVars, probeVars, requestVars, stepVars, gantryVars, jobVars,
                    factoryVars>>
  \/ (\E c \in Handlers, t \in TimeArgs : unlock_begin(c, t))
       /\ UNCHANGED <<camVars, probeVars, requestVars, stepVars, gantryVars, jobVars,
                    factoryVars>>
  \/ (\E c \in Handlers, err \in BOOLEAN : unlock_end(c, err))
       /\ UNCHANGED <<camVars, probeVars, requestVars, stepVars, gantryVars, jobVars,
                    factoryVars>>
  \/ (\E c \in Handlers, d \in Directions, dur \in Durations, sp \in Speeds :
         screw_begin(c, d, dur, sp))
       /\ UNCHANGED <<camVars, probeVars, requestVars, stepVars, gantryVars,
                    jobVars,
                    factoryVars>>
  \/ (\E c \in Handlers : screw_end(c))
       /\ UNCHANGED <<camVars, probeVars, requestVars, stepVars, gantryVars, jobVars,
                    factoryVars>>

\* the runs of the machines are those of a disk with no jobs file that can be
\* written and no factory file
NoJobsFiles == disk = [p \in JobPaths |-> IF p = "/ro/jobs.json" THEN Json(SeedDoc) ELSE Missing]
NoFactoryFile == ffile = FMissing

MachineInit == Init /\ NoJobsFiles /\ NoFactoryFile

StoreInit == Init /\ NoFactoryFile

CamSpec == MachineInit /\ [][CamNext]_vars

RequestSpec == MachineInit /\ [][RequestNext]_vars

GantrySpec == MachineInit /\ [][GantryNext]_vars

\* every started task thread keeps running, and every post returns
\* (requests.post has timeout=5)
GantryFairSpec ==
  GantrySpec /\ \A t \in Tasks : WF_vars(TaskStep(t)
       /\ UNCHANGED <<camVars, probeVars, requestVars, stepVars, piVars,
                    jobVars,
                    factoryVars>>)

MotionSpec == MachineInit /\ [][MotionNext]_vars

PiSpec == MachineInit /\ [][PiNext]_vars

JobNext ==
  \/ (\E p \in LoadArgs : load(p))
       /\ UNCHANGED <<camVars, probeVars, requestVars, stepVars, gantryVars, piVars,
                    factoryVars>>
  \/ save_jobs /\ UNCHANGED <<camVars, probeVars, requestVars, stepVars, gantryVars, piVars,
                    factoryVars>>
  \/ add_job /\ UNCHANGED <<camVars, probeVars, requestVars, stepVars, gantryVars, piVars,
                    factoryVars>>
  \/ (\E job \in UpdateJobs : update_job(job))
       /\ UNCHANGED <<camVars, probeVars, requestVars, stepVars, gantryVars, piVars,
                    factoryVars>>
  \/ (\E job_id \in DeleteArgs : delete_job(job_id))
       /\ UNCHANGED <<camVars, probeVars, requestVars, stepVars, gantryVars, piVars,
                    factoryVars>>
  \/ (\E job \in StoredJobs, machine \in Machines : run_job(job, machine))
       /\ UNCHANGED <<camVars, probeVars, requestVars, stepVars, factoryVars>>

JobSpec == StoreInit /\ [][JobNext]_vars

FactoryNext ==
  \/ load_factory /\ UNCHANGED <<camVars, probeVars, requestVars, stepVars>>
  \/ factory_add_job /\ UNCHANGED <<camVars, probeVars, requestVars, stepVars>>
  \/ (\E job \in UpdateJobs : factory_update_job(job))
       /\ UNCHANGED <<camVars, probeVars, requestVars,
                    stepVars>>
  \/ (\E job_id \in DeleteArgs : factory_delete_job(job_id))
       /\ UNCHANGED <<camVars, probeVars, requestVars, stepVars>>
  \/ (\E job_id \in RunArgs : factory_run_job(job_id))
       /\ UNCHANGED <<camVars, probeVars, requestVars,
                    stepVars>>

FactorySpec == Init /\ [][FactoryNext]_vars

(***************************************************************************)
(* Claims about CameraManager, checked under CamSpec.                       *)
(***************************************************************************)

\* C1: when N >= 1 start() calls that returned normally are followed by N
\* stop() calls (no start() after the first stop(), in whatever order the
\* callers get the lock), exactly one device open and exactly one
\* cap.release() have happened; and before the last of those stop() calls
\* returns from its teardown the device has been opened once and not closed.
C1_OneOpenOneClose ==
  (phased /\ nAcq >= 1) =>
     /\ nOpen = 1
     /\ (nRel < nAcq /\ ~lock) => nClose = 0
     /\ (nRel = nAcq /\ ~lock) => nClose = 1

C1_Witness ==
  /\ phased /\ ~lock
  /\ nAcq = 2 /\ nRel = 2
  /\ nOpen = 1 /\ nClose = 1

\* C2: in every reachable state at most one capture thread is inside
\* _capture_loop.
C2_AtMostOneLoop == Cardinality(RunningLoops) <= 1

\* C3 (as claimed): ref_count is never negative, in any reachable state.
C3_RefNeverNegative == ref_count >= 0

\* C3 (amended): ref_count is never negative while self.lock is free, that
\* is between calls; inside a stop() with no matching start() it is -1,
\* under the lock, until line 78 resets it.
C3_RefNonNegativeAtRest ==
  /\ ~lock => ref_count >= 0
  /\ ref_count >= -1

C3_Witness ==
  /\ ~lock
  /\ nRel > nAcq
  /\ cam_ret = "torn_down_nothread"
  /\ ref_count = 0

TornDown == {"torn_down_joined", "torn_down_timeout", "torn_down_nothread"}

\* C4: when a stop() that brought the count to zero has returned, self.cap
\* is None and no VideoCapture object is open, whether join() returned
\* because the thread had exited or because the timeout ran out.
C4_ReleaseClosesDevice ==
  (~lock /\ cam_ret \in TornDown) => (cap = None /\ isOpened = {})

C4_Witness ==
  /\ ~lock
  /\ cam_ret = "torn_down_timeout"
  /\ RunningLoops # {}
  /\ nClose >= 1
  /\ cap = None

\* C5: between calls, a capture loop is running iff ref_count > 0.
C5_LoopActiveIffRef ==
  ~lock => ((RunningLoops # {}) <=> (ref_count > 0))

\* C6: a start() that has to open the device and finds it not opened ends
\* with the device-unavailable error, ref_count as before the call, and no
\* thread recorded or started.
C6_FailedAcquire ==
  [][((\E ok \in BOOLEAN : start(ok)) /\ thread = None /\ cap' \notin isOpened')
       => /\ cam_ret' = "DeviceUnavailable"
          /\ ref_count' = ref_count
          /\ thread' = None
          /\ loop' = loop]_vars

C6_Witness ==
  /\ cam_ret = "DeviceUnavailable"
  /\ ref_count = 0
  /\ thread = None
  /\ cap # None /\ cap \notin isOpened
  /\ RunningLoops = {}
  /\ nAcq = 0

(***************************************************************************)
(* Claims about Gantry, checked under GantrySpec (C8: GantryFairSpec).      *)
(***************************************************************************)

\* C7: a goto() that finds in_motion set returns False (busy) and changes
\* nothing else: no task is started, nothing is posted to the controller,
\* in_motion, the cached pose and the controller are as before.
C7_BusyGotoNoEffect ==
  [][\A h \in Handlers :
       (goto_check(h) /\ in_motion)
         => /\ goto_ret' = "False"
            /\ UNCHANGED <<in_motion, toolend, io_lock, hpc, tpc, tcmd,
                           tfail, ctrl_mode, ctrl_pos, sent, tasks>>]_vars

C7_Witness ==
  \E h \in Handlers :
    /\ goto_ret = "False"
    /\ hpc[h] = "idle"
    /\ in_motion
    /\ Cardinality(InFlight) = 1
    /\ tasks = 1

\* C8: a goto() accepted while idle sets in_motion, and whenever in_motion
\* is set it is eventually cleared again, whether the commands of the move
\* succeeded or failed.
C8_MovingReturnsToIdle ==
  /\ [][\A h \in Handlers : goto_launch(h) => in_motion']_vars
  /\ in_motion ~> ~in_motion

C8_Witness ==
  \E t \in Tasks :
    /\ tpc[t] = "done"
    /\ tfail[t]
    /\ ~in_motion
    /\ InFlight = {}

\* C9: at most one motion task is in flight at any time.
C9_AtMostOneTask == Cardinality(InFlight) <= 1

(***************************************************************************)
(* Claims about RaspberryPi, checked under PiSpec.                          *)
(***************************************************************************)

\* C10: whenever a call of unlock() ends, by returning or by an exception
\* (raised by the sleep of the hold or by GPIO.output), the lock output is
\* de-energized at that moment.
C10_UnlockLeavesLockLow ==
  [][\A c \in Handlers :
       (\/ (\E t \in TimeArgs : unlock_begin(c, t)) /\ upc'[c] = "idle"
        \/ \E err \in BOOLEAN : unlock_end(c, err))
         => lock_out' = "LOW"]_vars

C10_Witness ==
  \E c \in Handlers :
    /\ uret[c] = "raised_hold"
    /\ upc[c] = "idle"
    /\ gpio_setup
    /\ lock_out = "LOW"

\* C11: on a connected actuator, a screw() in direction CW or CCW with a
\* positive duration sets the direction output to the requested direction
\* and the duty to the speed clamped into 0..100; when it returns the duty
\* is 0 and the direction output is low; a screw("STOP") leaves the duty 0
\* and the direction output low.
C11_ScrewDrivesThenStops ==
  [][\A c \in Handlers :
       /\ \A d \in {"CW", "CCW"}, sp \in Speeds :
            (screw_begin(c, d, 2, sp) /\ connected)
              => (dir_out' = dir_level(d) /\ duty' = clamp_duty(sp))
       /\ screw_end(c) => (duty' = 0 /\ dir_out' = "LOW")
       /\ (\E sp \in Speeds : screw_begin(c, "STOP", 0, sp) /\ connected)
            => (duty' = 0 /\ dir_out' = "LOW")]_vars

(***************************************************************************)
(* Claims about JobsManager, checked under JobSpec.                         *)
(***************************************************************************)

\* C12: whenever save_jobs has run on a store whose jobs file is configured
\* (a path that is not empty), loading that file yields a mapping equal to
\* the store that was saved.
C12_SaveLoadRoundTrip ==
  [][(save_jobs /\ truthy(jobs_file)) => load_jobs(jobs_file', disk') = jobs']_vars

\* C13: the id an add_job returns is one no earlier add_job of this
\* JobsManager has returned, whether or not the job that had it has since
\* been deleted; so the ids issued are as many as the calls made.
C13_AddIssuesFreshId ==
  [][add_job => (jret'.id \notin issued /\ Cardinality(issued') = job_counter')]_vars

\* an add_job has returned after a job that an earlier one had issued was
\* deleted
C13_Witness ==
  /\ jop = "add"
  /\ Cardinality(issued) >= 2
  /\ issued \cap deleted # {}

\* C14: every add_job makes the store one job larger and leaves every job
\* that was in it, whether read by load, inserted by update_job or added
\* before, as it was.
C14_AddKeepsStoredJobs ==
  [][add_job => /\ Cardinality(DOMAIN jobs') = Cardinality(DOMAIN jobs) + 1
                /\ \A k \in DOMAIN jobs : jobs'[k] = jobs[k]]_vars

\* C16: when save_jobs failed inside add_job, update_job or delete_job, the
\* call does not return its normal success value (the id, or True).
C16_FailedSaveIsReported ==
  (jop \in {"add", "update", "delete"} /\ jsaved = "False")
    => ~(jret.kind = "id" \/ (jret.kind = "bool" /\ jret.val = "True"))

\* C17: a run_job whose action is not a method of the machine changes
\* nothing of the machines, of the store or of the jobs file, and returns
\* its not-found result (None).
C17_UnknownActionIsNoOp ==
  [][\A job \in StoredJobs, machine \in Machines :
       (run_job(job, machine) /\ getattr_kind(machine, job.action) # "method")
         => /\ UNCHANGED <<gantryVars, piVars, jobs, disk>>
            /\ jret' = Returned("result", StrId(0), "None")]_vars

\* C18: a run_job that has called a method of the machine has called
\* save_jobs before it ends, whether the method returned or raised.
C18_RunPersistsAfterAction ==
  [][\A job \in StoredJobs, machine \in Machines :
       (run_job(job, machine) /\ getattr_kind(machine, job.action) = "method")
         => jsaved' # "none"]_vars

(***************************************************************************)
(* Claims about Factory, checked under FactorySpec.                         *)
(***************************************************************************)

\* C15: a load_factory of a factory file that is missing, zero-byte or not
\* JSON returns normally, with machines as their constructors make them,
\* an empty tool map and an empty job set.
C15_LoadToleratesBadFile ==
  [][(load_factory /\ ~data_bound(ffile))
       => /\ fret' = "self"
          /\ jobs' = NoJobs
          /\ tools' = "{}"
          /\ ~in_motion' /\ toolend' = "origin" /\ ~holders' /\ ~connected']_vars

\* C19: when add_job, update_job, delete_job or run_job of a Factory with a
\* save_file has returned, the factory file is a JSON object, and the job
\* set that a load_factory of it would read is the job set in memory.
C19_FactoryFileMatchesMemory ==
  (fop \in {"add", "update", "delete", "run"} /\ fret \in {"id", "None"}
     /\ save_file # "")
    => (data_bound(ffile) /\ load_jobs(ffile.jobs, disk) = jobs)

(***************************************************************************)
(* Claim about detect_cameras, checked under CamSpec.                       *)
(***************************************************************************)

Driving == {c \in Handlers : upc[c] = "hold" \/ spc[c] = "run"}

\* C21: at most one caller at a time is inside a screw or unlock command of
\* the actuator (as at most one caller at a time holds the gantry's
\* _io_lock inside send).
C21_DispatchSerialized == Cardinality(Driving) <= 1

\* C22: while a session is held (the count is positive and no teardown is
\* in progress), the latest frame is none or a frame captured from the
\* device object of this session; so what a snapshot reads at line 144 is
\* never a frame of an earlier session.
C22_NoFrameOfEarlierSession ==
  (ref_count > 0 /\ ~lock /\ cap # None) => (latest_frame = None \/ latest_frame = cap)

\* the requests that have begun and not ended
InFlightRequests == {r \in Requests : rpc[r] # "idle"}

\* C23: the requests have released what they acquired: once no request is
\* in flight the reference count is 0 and no device object is held or open.
C23_RequestsReleaseWhatTheyAcquire ==
  (InFlightRequests = {} /\ ~lock) => (ref_count = 0 /\ cap \notin isOpened)

\* C24: whenever the move command (G1) of a motion task reaches the
\* controller, the controller is in absolute addressing mode.
C24_GotoMovesInAbsoluteMode ==
  [][\A t \in Tasks : (send_post(t, TRUE) /\ tcmd[t] = 2) => ctrl_mode = "abs"]_vars

====
